---- MODULE Spec2Model ----
(***************************************************************************)
(* A model of package model of pmmaga/gostl (src/model/model.go): the two  *)
(* binary STL decoders, the ASCII STL decoder, the bounding box, the       *)
(* orthographic projection onto a grid and the block-character renderer.    *)
(*                                                                         *)
(* float32 values are modelled as exact rationals extended with NaN, +Inf  *)
(* and -Inf; rounding and signed zeros are not modelled.  Go's int is      *)
(* modelled as a two's complement integer of IntBits bits.                 *)
(***************************************************************************)
EXTENDS Integers, Sequences, FiniteSets, TLC

VARIABLES
    pc,           \* position of the running function
    m,            \* the Model value: [Header, NumTriangles, Triangles]
    err,          \* the error value returned ("nil" when none)
    matrixSize,   \* ProjectModelVertices: parameter matrixSize
    projectFrom,  \* ProjectModelVertices: parameter projectFrom
    mins,         \* ProjectModelVertices: local mins
    maxs,         \* ProjectModelVertices: local maxs
    scale,        \* ProjectModelVertices: local scale
    matrix,       \* the grid: built by ProjectModelVertices, read by DrawMatrix
    j,            \* ProjectModelVertices: triangle index of the outer loop
    k,            \* ProjectModelVertices: vertex index of the inner loop
    arch,         \* the build's architecture, which decides int(f) of a NaN
    buffer,       \* DrawMatrix: the glyphs written, in order
    input,        \* the decoders' argument: the stream, the byte slice, the text
    pos,          \* the decoders' reader: the bytes or the lines consumed so far
    aTriangle,    \* CreateFromASCIISTL: local aTriangle
    vertexIndex   \* CreateFromASCIISTL: index j of the loop over the vertices

\* The locals of ProjectModelVertices.
projVars == <<matrixSize, projectFrom, mins, maxs, scale, j, k, arch>>
\* The argument, the reader and the locals of the decoders.
asciiVars == <<aTriangle, vertexIndex>>
decVars == <<input, pos, asciiVars>>

vars == <<pc, m, err, matrix, buffer, projVars, decVars>>

\* No decoder is running.
NoDecoder == input = <<>> /\ pos = 0 /\ aTriangle = <<>> /\ vertexIndex = 0

\* ------------------------------------------------------------------ bounds

MaxTriangles == 2
MaxMatrixSize == 3

\* ----------------------------------------------------------------- float32

\* math.MaxFloat32, scaled to the model's number range: the largest finite
\* value; a finite result beyond it overflows to an infinity.
MaxFloat32 == 1000

Abs(x) == IF x < 0 THEN -x ELSE x

RECURSIVE GCD(_, _)
GCD(a, b) == IF b = 0 THEN a ELSE GCD(b, a % b)

\* The finite value n/d (d # 0), in lowest terms with a positive denominator.
Fin(n, d) ==
    LET g == GCD(Abs(n), Abs(d))
        s == IF d < 0 THEN -1 ELSE 1
    IN [kind |-> "fin", n |-> (s * n) \div g, d |-> (s * d) \div g]

NaN == [kind |-> "nan", n |-> 0, d |-> 1]
PInf == [kind |-> "inf", n |-> 1, d |-> 1]
NInf == [kind |-> "inf", n |-> -1, d |-> 1]

IsNaN(a) == a.kind = "nan"
IsFin(a) == a.kind = "fin"
Sign(a) == IF a.n > 0 THEN 1 ELSE IF a.n < 0 THEN -1 ELSE 0

\* A finite exact result, overflowing to an infinity beyond MaxFloat32.
Rounded(n, d) ==
    LET r == Fin(n, d)
    IN IF r.n > MaxFloat32 * r.d THEN PInf
       ELSE IF r.n < (-MaxFloat32) * r.d THEN NInf
       ELSE r

\* a < b on float32: false when either operand is NaN.
FLess(a, b) ==
    IF IsNaN(a) \/ IsNaN(b) THEN FALSE
    ELSE IF IsFin(a) /\ IsFin(b) THEN a.n * b.d < b.n * a.d
    ELSE IF IsFin(a) THEN b.n > 0
    ELSE IF IsFin(b) THEN a.n < 0
    ELSE a.n < b.n

\* a > b on float32.
FGreater(a, b) == FLess(b, a)

\* a <= b on float32: false when either operand is NaN.
FLessEq(a, b) == FLess(a, b) \/ (~IsNaN(a) /\ ~IsNaN(b) /\ a = b)

\* a - b on float32.
FSub(a, b) ==
    IF IsNaN(a) \/ IsNaN(b) THEN NaN
    ELSE IF IsFin(a) /\ IsFin(b) THEN Rounded(a.n * b.d - b.n * a.d, a.d * b.d)
    ELSE IF IsFin(b) THEN a
    ELSE IF IsFin(a) THEN (IF b.n > 0 THEN NInf ELSE PInf)
    ELSE IF a.n = b.n THEN NaN ELSE a

\* a / b on float32.
FDiv(a, b) ==
    IF IsNaN(a) \/ IsNaN(b) THEN NaN
    ELSE IF IsFin(a) /\ IsFin(b) THEN
        IF b.n = 0 THEN (IF a.n = 0 THEN NaN ELSE IF a.n > 0 THEN PInf ELSE NInf)
        ELSE Rounded(a.n * b.d, a.d * b.n)
    ELSE IF IsFin(b) THEN (IF Sign(a) * Sign(b) < 0 THEN NInf ELSE PInf)
    ELSE IF IsFin(a) THEN Fin(0, 1)
    ELSE NaN

\* a * b on float32.
FMul(a, b) ==
    IF IsNaN(a) \/ IsNaN(b) THEN NaN
    ELSE IF IsFin(a) /\ IsFin(b) THEN Rounded(a.n * b.n, a.d * b.d)
    ELSE IF Sign(a) * Sign(b) = 0 THEN NaN
    ELSE IF Sign(a) * Sign(b) < 0 THEN NInf ELSE PInf

\* --------------------------------------------------------------------- int

\* Go's int, as a two's complement integer of IntBits bits.
IntBits == 30
IntModulus == 2 ^ IntBits
MinInt == -(2 ^ (IntBits - 1))
MaxInt == (2 ^ (IntBits - 1)) - 1

\* The wrap-around of integer arithmetic.
WrapInt(x) == ((x - MinInt) % IntModulus) + MinInt

\* Go's integer division truncates toward zero.
TruncDiv(a, b) ==
    IF (a >= 0) = (b > 0) THEN Abs(a) \div Abs(b) ELSE -(Abs(a) \div Abs(b))

\* The architectures of the model: what int(f) gives for a value int cannot
\* represent is implementation-dependent (Go specification, Conversions).
Architectures == {"amd64", "arm64"}

\* int(f): the conversion truncates toward zero. For a NaN, an infinity or a
\* value out of range, amd64 gives the minimum integer; arm64 gives 0 for a
\* NaN and saturates otherwise.
IntOf(f, a) ==
    IF IsFin(f) /\ TruncDiv(f.n, f.d) >= MinInt /\ TruncDiv(f.n, f.d) <= MaxInt
    THEN TruncDiv(f.n, f.d)
    ELSE IF a = "amd64" THEN MinInt
    ELSE IF IsNaN(f) THEN 0
    ELSE IF f.n > 0 THEN MaxInt
    ELSE MinInt

\* --------------------------------------------------------------- the Model

Axes == 0 .. 2

\* A vertex or a normal: [3]float32, indexed 0..2.
Vec(x, y, z) == (0 :> x) @@ (1 :> y) @@ (2 :> z)

Triangle(normal, v0, v1, v2) ==
    [Normal |-> normal,
     Vertices |-> (0 :> v0) @@ (1 :> v1) @@ (2 :> v2),
     AttrByteCount |-> 0]

\* The zero value of Model.
ZeroModel == [Header |-> <<>>, NumTriangles |-> 0, Triangles |-> <<>>]

\* ------------------------------------------------------------- getMinsMaxs

\* MinsMaxsStep with the minimum never lowered below the first vertex seen.
MinsMaxsStepKeepsFirstMin(mm, v) ==
    LET min(c) == IF mm.mins[c] = Fin(MaxFloat32, 1) /\ FLess(v[c], mm.mins[c])
                  THEN v[c] ELSE mm.mins[c]
        max(c) == IF FGreater(v[c], mm.maxs[c]) THEN v[c] ELSE mm.maxs[c]
    IN [mins |-> Vec(min(0), min(1), min(2)), maxs |-> Vec(max(0), max(1), max(2))]

\* Lines 255-262: the innermost loop over the coordinates of vertex v.
MinsMaxsStep(mm, v) ==
    LET min(c) == IF FLess(v[c], mm.mins[c]) THEN v[c] ELSE mm.mins[c]
        max(c) == IF FGreater(v[c], mm.maxs[c]) THEN v[c] ELSE mm.maxs[c]
    IN [mins |-> Vec(min(0), min(1), min(2)), maxs |-> Vec(max(0), max(1), max(2))]

RECURSIVE MinsMaxsFrom(_, _, _)
\* Lines 251-265: the loops over the triangles and their vertices, from the
\* n-th vertex of the mesh on.
MinsMaxsFrom(mm, tris, n) ==
    IF n >= 3 * Len(tris) THEN mm
    ELSE MinsMaxsFrom(MinsMaxsStep(mm, tris[(n \div 3) + 1].Vertices[n % 3]),
                      tris, n + 1)

getMinsMaxs(model) ==
    MinsMaxsFrom([mins |-> Vec(Fin(MaxFloat32, 1), Fin(MaxFloat32, 1), Fin(MaxFloat32, 1)),
                  maxs |-> Vec(Fin(-MaxFloat32, 1), Fin(-MaxFloat32, 1), Fin(-MaxFloat32, 1))],
                 model.Triangles, 0)

\* ---------------------------------------------------- ProjectModelVertices

ProjectFromSide == 0
ProjectFromFront == 1
ProjectFromTop == 2

GetAxisForProjection(p) ==
    IF p = ProjectFromSide THEN [forX |-> 2, forY |-> 1, forValue |-> 0]
    ELSE IF p = ProjectFromFront THEN [forX |-> 2, forY |-> 0, forValue |-> 1]
    ELSE IF p = ProjectFromTop THEN [forX |-> 1, forY |-> 0, forValue |-> 2]
    ELSE [forX |-> 0, forY |-> 0, forValue |-> 0]

Dimensions(mn, mx) == Vec(FSub(mx[0], mn[0]), FSub(mx[1], mn[1]), FSub(mx[2], mn[2]))

Scale(dims, ax, size) ==
    IF FGreater(dims[ax.forX], dims[ax.forY])
    THEN FDiv(dims[ax.forX], Fin(size, 1))
    ELSE FDiv(dims[ax.forY], Fin(size, 1))

\* make([][]float32, matrixSize/2+1) of make([]float32, matrixSize+1): zeros.
NewMatrix(size) ==
    [r \in 0 .. (size \div 2) |-> [c \in 0 .. size |-> Fin(0, 1)]]

\* Line 85: a coordinate moved to the positive space and scaled.
Adjusted(v, axis, mn, sc) == FDiv(FSub(v[axis], mn[axis]), sc)

\* Line 88: the depth of a vertex, normalised by the depth extent.
NewValue(v, ax, mn, mx) ==
    FDiv(FSub(v[ax.forValue], mn[ax.forValue]), Dimensions(mn, mx)[ax.forValue])

\* The row index (matrixSize-matrixX)/2 of lines 89-90.
RowIndex(size, matrixX) == TruncDiv(WrapInt(size - matrixX), 2)

\* The row and the column lines 86 and 89 compute for vertex v.
VertexRow(v, ax, mn, sc, size, a) == RowIndex(size, IntOf(Adjusted(v, ax.forX, mn, sc), a))
VertexCol(v, ax, mn, sc, a) == IntOf(Adjusted(v, ax.forY, mn, sc), a)

\* Whether matrix[row][col] is an element of the grid.
InGrid(mat, row, col) == row \in DOMAIN mat /\ col \in DOMAIN mat[row]

\* MarkVertex with the last write winning.
MarkVertexLastWrite(mat, row, col, newValue) ==
    [mat EXCEPT ![row][col] = newValue]

\* Lines 89-91: the cell keeps the larger of its value and newValue.
MarkVertex(mat, row, col, newValue) ==
    IF FGreater(newValue, mat[row][col])
    THEN [mat EXCEPT ![row][col] = newValue]
    ELSE mat

\* The points the meshes of the model are built from.
P0 == Vec(Fin(0, 1), Fin(0, 1), Fin(0, 1))
P1 == Vec(Fin(0, 1), Fin(0, 1), Fin(2, 1))
P2 == Vec(Fin(2, 1), Fin(1, 1), Fin(-1, 1))
P3 == Vec(Fin(1, 1), Fin(2, 1), Fin(1, 1))
PN == Vec(NaN, Fin(1, 1), Fin(0, 1))

\* The triangles of the meshes: a single point, a segment along one axis,
\* triangles that share vertices in different orders, one with a NaN.
MeshTriangles ==
    {Triangle(P0, P0, P0, P0),
     Triangle(P0, P0, P1, P0),
     Triangle(P0, P1, P2, P0),
     Triangle(P0, P2, P3, P1),
     Triangle(P0, P3, P0, P2),
     Triangle(P0, P3, P3, P3),
     Triangle(P0, PN, P3, P0)}

RECURSIVE SeqsUpTo(_, _)
\* The sequences over S of length at most n.
SeqsUpTo(S, n) ==
    IF n = 0 THEN {<<>>}
    ELSE LET shorter == SeqsUpTo(S, n - 1)
         IN shorter \cup {Append(s, x) : s \in {q \in shorter : Len(q) = n - 1}, x \in S}

Meshes ==
    {[Header |-> <<>>, NumTriangles |-> Len(t), Triangles |-> t] :
        t \in SeqsUpTo(MeshTriangles, MaxTriangles)}

InitProject ==
    /\ pc = "project"
    /\ m \in Meshes
    /\ err = "nil"
    /\ matrixSize \in 1 .. MaxMatrixSize
    /\ projectFrom \in {ProjectFromSide, ProjectFromFront, ProjectFromTop}
    /\ arch \in Architectures
    /\ mins = <<>>
    /\ maxs = <<>>
    /\ scale = NaN
    /\ matrix = <<>>
    /\ j = 0
    /\ k = 0
    /\ buffer = <<>>
    /\ NoDecoder

\* Lines 64-79: the axes, the bounding box, the scale, the zeroed grid.
ProjectSetup ==
    /\ pc = "project"
    /\ LET mm == getMinsMaxs(m)
           ax == GetAxisForProjection(projectFrom)
       IN /\ mins' = mm.mins
          /\ maxs' = mm.maxs
          /\ scale' = Scale(Dimensions(mm.mins, mm.maxs), ax, matrixSize)
    /\ matrix' = NewMatrix(matrixSize)
    /\ j' = 0
    /\ k' = 0
    /\ pc' = "project_loop"
    /\ UNCHANGED <<m, err, matrixSize, projectFrom, arch, buffer, decVars>>

\* Lines 83-92: one pass of the inner loop, on vertex k of triangle j.
ProjectVertex ==
    /\ pc = "project_loop"
    /\ j < Len(m.Triangles)
    /\ LET ax == GetAxisForProjection(projectFrom)
           v == m.Triangles[j + 1].Vertices[k]
           row == VertexRow(v, ax, mins, scale, matrixSize, arch)
           col == VertexCol(v, ax, mins, scale, arch)
       IN IF InGrid(matrix, row, col)
          THEN /\ matrix' = MarkVertex(matrix, row, col, NewValue(v, ax, mins, maxs))
               /\ k' = IF k = 2 THEN 0 ELSE k + 1
               /\ j' = IF k = 2 THEN j + 1 ELSE j
               /\ pc' = "project_loop"
          ELSE \* index out of range: the function panics
               /\ pc' = "panic"
               /\ UNCHANGED <<matrix, j, k>>
    /\ UNCHANGED <<m, err, matrixSize, projectFrom, mins, maxs, scale, arch, buffer, decVars>>

\* Line 94: the loops are over, the grid is returned.
ProjectReturn ==
    /\ pc = "project_loop"
    /\ j >= Len(m.Triangles)
    /\ pc' = "project_done"
    /\ UNCHANGED <<m, err, matrix, buffer, projVars, decVars>>

NextProject == ProjectSetup \/ ProjectVertex \/ ProjectReturn

SpecProject == InitProject /\ [][NextProject]_vars

\* -------------------------------------------------------------- DrawMatrix

\* Bounds of the grids drawn: rows, and cells in all.
MaxRows == 2
MaxCells == 4

\* The glyphs: the three shades of block, the space, and the row terminator.
HeavyShade == "heavy shade"
MediumShade == "medium shade"
LightShade == "light shade"
Space == " "
NewLine == "\n"

\* Glyph with the first threshold met by equality.
GlyphHeavyAtThree(value) ==
    LET adjVal == FMul(value, Fin(4, 1))
    IN IF ~FLess(adjVal, Fin(3, 1)) /\ ~IsNaN(adjVal) THEN HeavyShade
       ELSE IF FGreater(adjVal, Fin(3, 2)) THEN MediumShade
       ELSE IF FGreater(adjVal, Fin(0, 1)) THEN LightShade
       ELSE Space

\* Lines 104-113: the switch on adjVal := matrix[i][j] * 4.
Glyph(value) ==
    LET adjVal == FMul(value, Fin(4, 1))
    IN IF FGreater(adjVal, Fin(3, 1)) THEN HeavyShade
       ELSE IF FGreater(adjVal, Fin(3, 2)) THEN MediumShade
       ELSE IF FGreater(adjVal, Fin(0, 1)) THEN LightShade
       ELSE Space

\* The length of a slice indexed from 0.
SliceLen(s) == Cardinality(DOMAIN s)

RECURSIVE DrawRowFrom(_, _, _)
\* Lines 102-114: the inner loop from column c on, appending to buf.
DrawRowFrom(row, c, buf) ==
    IF c >= SliceLen(row) THEN buf
    ELSE DrawRowFrom(row, c + 1, Append(buf, Glyph(row[c])))

RECURSIVE DrawRowsFrom(_, _, _)
\* Lines 101-117: the outer loop from row r on; each row ends with a new line.
DrawRowsFrom(mat, r, buf) ==
    IF r >= SliceLen(mat) THEN buf
    ELSE DrawRowsFrom(mat, r + 1, Append(DrawRowFrom(mat[r], 0, buf), NewLine))

DrawMatrix(mat) == DrawRowsFrom(mat, 0, <<>>)

\* The values of the cells of the grids drawn.
DrawValues == {Fin(0, 1), Fin(3, 8), Fin(3, 4), Fin(1, 1), Fin(-1, 2), NaN}

\* A sequence as a slice indexed from 0.
Slice(s) == [i \in 0 .. (Len(s) - 1) |-> s[i + 1]]

RECURSIVE SumSeq(_)
SumSeq(s) == IF s = <<>> THEN 0 ELSE Head(s) + SumSeq(Tail(s))

\* The row lengths of the grids drawn: at most MaxRows rows, MaxCells cells.
RowLengths == {l \in SeqsUpTo(0 .. MaxCells, MaxRows) : SumSeq(l) <= MaxCells}

\* The grid whose rows have the lengths lens and hold cells, row after row.
Reshape(lens, cells) ==
    Slice([r \in 1 .. Len(lens) |->
             Slice(SubSeq(cells, SumSeq(SubSeq(lens, 1, r - 1)) + 1,
                          SumSeq(SubSeq(lens, 1, r))))])

InitDraw ==
    /\ pc = "draw"
    /\ \E lens \in RowLengths : \E cells \in [1 .. SumSeq(lens) -> DrawValues] :
          matrix = Reshape(lens, cells)
    /\ buffer = <<>>
    /\ m = ZeroModel
    /\ err = "nil"
    /\ matrixSize = 0
    /\ projectFrom = 0
    /\ arch = "amd64"
    /\ mins = <<>>
    /\ maxs = <<>>
    /\ scale = NaN
    /\ j = 0
    /\ k = 0
    /\ NoDecoder

\* Lines 98-120: DrawMatrix returns the string of the grid.
Draw ==
    /\ pc = "draw"
    /\ buffer' = DrawMatrix(matrix)
    /\ pc' = "draw_done"
    /\ UNCHANGED <<m, err, matrix, projVars, decVars>>

NextDraw == Draw

SpecDraw == InitDraw /\ [][NextDraw]_vars

\* ------------------------------------------------------ binary decoders

\* Bounds of the binary inputs: bytes in all, and the declared count.
MaxBytes == 186
MaxCount == 3

\* The sizes of the binary layout: the header text, the header with the
\* count, and one Triangle as encoding/binary sizes it (12 + 36 + 2 bytes).
HeaderTextSize == 80
HeaderSize == 84
TriangleSize == 50

\* The header texts of the model: empty, plain, and with NUL bytes in front
\* and inside.
HeaderTexts == {<<>>, <<83, 84, 76>>, <<0, 83, 0, 76>>}

\* The byte at offset i (from 0) of the input with header text txt and
\* declared count n: the text padded with NULs, the count in little-endian
\* order, then the triangle records.
ByteAt(txt, n, i) ==
    IF i < HeaderTextSize THEN (IF i < Len(txt) THEN txt[i + 1] ELSE 0)
    ELSE IF i < HeaderSize THEN (n \div (256 ^ (i - HeaderTextSize))) % 256
    ELSE (i * 37 + 11) % 256

\* The bytes of the array behind the input: input.cap of them, of which a
\* stream delivers, and a slice spans, the first input.len.
Backing(inp) == [i \in 1 .. inp.cap |-> ByteAt(inp.text, inp.count, i - 1)]

\* strings.Trim(s, "\x00"): the NULs in front and at the end removed.
RECURSIVE TrimNul(_)
TrimNul(s) ==
    IF s = <<>> THEN s
    ELSE IF Head(s) = 0 THEN TrimNul(Tail(s))
    ELSE IF s[Len(s)] = 0 THEN TrimNul(SubSeq(s, 1, Len(s) - 1))
    ELSE s

\* binary.LittleEndian.Uint32 of four bytes.
LittleEndianUint32(b) == b[1] + 256 * b[2] + 65536 * b[3] + 16777216 * b[4]

\* io.ReadFull reading past what is asked for, as a buffering reader does.
ReadFullReadsAhead(bytes, from, n) ==
    IF Len(bytes) - from >= n
    THEN [data |-> SubSeq(bytes, from + 1, from + n), err |-> "nil", pos |-> Len(bytes)]
    ELSE [data |-> <<>>, pos |-> Len(bytes),
          err |-> IF Len(bytes) - from = 0 THEN "EOF" ELSE "unexpected EOF"]

\* io.ReadFull(r, buf) with len(buf) = n on a reader that has delivered the
\* first `from` of bytes: exactly n bytes and nil, or what is left with
\* io.EOF (nothing read) or io.ErrUnexpectedEOF; n = 0 reads nothing.
ReadFull(bytes, from, n) ==
    IF Len(bytes) - from >= n
    THEN [data |-> SubSeq(bytes, from + 1, from + n), err |-> "nil", pos |-> from + n]
    ELSE [data |-> <<>>, pos |-> Len(bytes),
          err |-> IF Len(bytes) - from = 0 THEN "EOF" ELSE "unexpected EOF"]

\* A float32 read by encoding/binary, kept as its four bytes.
Float32Bits(rec, at) == SubSeq(rec, at + 1, at + 4)

\* One Triangle decoded from its 50 bytes.
DecodeTriangle(rec) ==
    [Normal |-> Vec(Float32Bits(rec, 0), Float32Bits(rec, 4), Float32Bits(rec, 8)),
     Vertices |->
        (0 :> Vec(Float32Bits(rec, 12), Float32Bits(rec, 16), Float32Bits(rec, 20)))
        @@ (1 :> Vec(Float32Bits(rec, 24), Float32Bits(rec, 28), Float32Bits(rec, 32)))
        @@ (2 :> Vec(Float32Bits(rec, 36), Float32Bits(rec, 40), Float32Bits(rec, 44))),
     AttrByteCount |-> rec[49] + 256 * rec[50]]

\* The zero value of Triangle, as make([]Triangle, n) holds it.
ZeroTriangle ==
    DecodeTriangle(<<0, 0, 0, 0, 0, 0, 0, 0, 0, 0, 0, 0, 0, 0, 0, 0, 0, 0, 0, 0, 0, 0, 0, 0, 0,
                     0, 0, 0, 0, 0, 0, 0, 0, 0, 0, 0, 0, 0, 0, 0, 0, 0, 0, 0, 0, 0, 0, 0, 0, 0>>)

RECURSIVE DecodeTriangles(_, _)
DecodeTriangles(data, n) ==
    IF n = 0 THEN <<>>
    ELSE Append(DecodeTriangles(data, n - 1),
                DecodeTriangle(SubSeq(data, (n - 1) * TriangleSize + 1, n * TriangleSize)))

RECURSIVE ZeroTriangles(_)
ZeroTriangles(n) == IF n = 0 THEN <<>> ELSE Append(ZeroTriangles(n - 1), ZeroTriangle)

\* m.Triangles = make([]Triangle, n); err = binary.Read(r, LittleEndian,
\* &m.Triangles) on a reader that has delivered the first `from` of bytes:
\* the n records are read in one io.ReadFull and decoded only when complete.
ReadTriangles(bytes, from, n) ==
    LET got == ReadFull(bytes, from, n * TriangleSize)
    IN [Triangles |-> IF got.err = "nil" THEN DecodeTriangles(got.data, n)
                      ELSE ZeroTriangles(n),
        err |-> got.err,
        pos |-> got.pos]

\* The arguments of the binary decoders: for CreateFromBinarySTL a stream of
\* len bytes; for CreateFromByteSlice a slice of len bytes whose array ends
\* with it or extends to MaxBytes.
InitBinary ==
    /\ \E f \in {"CreateFromBinarySTL", "CreateFromByteSlice"}, l \in 0 .. MaxBytes,
          n \in 0 .. MaxCount, t \in HeaderTexts :
          \E c \in IF f = "CreateFromBinarySTL" THEN {l} ELSE {l, MaxBytes} :
             input = [fn |-> f, len |-> l, cap |-> c, count |-> n, text |-> t]
    /\ pc = IF input.fn = "CreateFromBinarySTL" THEN "stream" ELSE "slice"
    /\ pos = 0
    /\ aTriangle = <<>>
    /\ vertexIndex = 0
    /\ m = ZeroModel
    /\ err = "nil"
    /\ matrix = <<>>
    /\ buffer = <<>>
    /\ matrixSize = 0
    /\ projectFrom = 0
    /\ arch = "amd64"
    /\ mins = <<>>
    /\ maxs = <<>>
    /\ scale = NaN
    /\ j = 0
    /\ k = 0

\* The bytes the stream delivers, and the bytes of the slice.
Bytes(inp) == SubSeq(Backing(inp), 1, inp.len)

\* Lines 139-145 of CreateFromBinarySTL: the 84 bytes of the header are read
\* in full, or the error of the read is returned with the zero Model.
StreamHeader ==
    /\ pc = "stream"
    /\ LET got == ReadFull(Bytes(input), pos, HeaderSize)
       IN /\ pos' = got.pos
          /\ err' = got.err
          /\ IF got.err # "nil"
             THEN pc' = "stream_done" /\ m' = m
             ELSE /\ pc' = "stream_triangles"
                  /\ m' = [m EXCEPT
                            !.Header = TrimNul(SubSeq(got.data, 1, HeaderTextSize)),
                            !.NumTriangles =
                                LittleEndianUint32(SubSeq(got.data, HeaderTextSize + 1,
                                                          HeaderSize))]
    /\ UNCHANGED <<matrix, buffer, projVars, input, asciiVars>>

\* Lines 148-153 of CreateFromBinarySTL: the triangles are allocated and read.
StreamTriangles ==
    /\ pc = "stream_triangles"
    /\ LET got == ReadTriangles(Bytes(input), pos, m.NumTriangles)
       IN /\ m' = [m EXCEPT !.Triangles = got.Triangles]
          /\ err' = got.err
          /\ pos' = got.pos
    /\ pc' = "stream_done"
    /\ UNCHANGED <<matrix, buffer, projVars, input, asciiVars>>

\* Lines 124-126 of CreateFromByteSlice: byteSlice[:80] and byteSlice[80:84]
\* panic when they reach beyond the capacity of the slice.
SliceHeader ==
    /\ pc = "slice"
    /\ IF input.cap < HeaderSize
       THEN pc' = "panic" /\ m' = m
       ELSE /\ pc' = "slice_triangles"
            /\ m' = [m EXCEPT
                      !.Header = TrimNul(SubSeq(Backing(input), 1, HeaderTextSize)),
                      !.NumTriangles =
                          LittleEndianUint32(SubSeq(Backing(input), HeaderTextSize + 1,
                                                    HeaderSize))]
    /\ UNCHANGED <<err, pos, matrix, buffer, projVars, input, asciiVars>>

\* Lines 128-134 of CreateFromByteSlice: byteSlice[84:] panics when the slice
\* is shorter than 84 bytes; the triangles are read from the rest.
SliceTriangles ==
    /\ pc = "slice_triangles"
    /\ IF input.len < HeaderSize
       THEN pc' = "panic" /\ UNCHANGED <<m, err, pos>>
       ELSE LET got == ReadTriangles(Bytes(input), HeaderSize, m.NumTriangles)
            IN /\ m' = [m EXCEPT !.Triangles = got.Triangles]
               /\ err' = got.err
               /\ pos' = got.pos
               /\ pc' = "slice_done"
    /\ UNCHANGED <<matrix, buffer, projVars, input, asciiVars>>

\* ------------------------------------------------------- ASCII decoder

\* Bound of the ASCII inputs: the facets of the text.
MaxFacets == 2

\* The lines of the model's texts, each named by its text and given as its
\* characters; a line does not hold its terminating "\n".
LineChars ==
    ("solid t" :> <<"s", "o", "l", "i", "d", " ", "t">>)
    @@ ("solid  cube 1 " :> <<"s", "o", "l", "i", "d", " ", " ", "c", "u", "b", "e", " ", "1", " ">>)
    @@ ("cube" :> <<"c", "u", "b", "e">>)
    @@ ("facet normal 0 0 1" :> <<"f", "a", "c", "e", "t", " ", "n", "o", "r", "m", "a", "l", " ", "0", " ", "0", " ", "1">>)
    @@ ("outer loop" :> <<"o", "u", "t", "e", "r", " ", "l", "o", "o", "p">>)
    @@ ("vertex 1 0 0" :> <<"v", "e", "r", "t", "e", "x", " ", "1", " ", "0", " ", "0">>)
    @@ ("vertex 0 1 0" :> <<"v", "e", "r", "t", "e", "x", " ", "0", " ", "1", " ", "0">>)
    @@ ("vertex 0 0 1" :> <<"v", "e", "r", "t", "e", "x", " ", "0", " ", "0", " ", "1">>)
    @@ ("endloop" :> <<"e", "n", "d", "l", "o", "o", "p">>)
    @@ ("endfacet" :> <<"e", "n", "d", "f", "a", "c", "e", "t">>)
    @@ ("  facet normal 1 0 -1\r" :> <<" ", " ", "f", "a", "c", "e", "t", " ", "n", "o", "r", "m", "a", "l", " ", "1", " ", "0", " ", "-", "1", "\r">>)
    @@ ("\touter loop\r" :> <<"\t", "o", "u", "t", "e", "r", " ", "l", "o", "o", "p", "\r">>)
    @@ ("      vertex 2 0 0\r" :> <<" ", " ", " ", " ", " ", " ", "v", "e", "r", "t", "e", "x", " ", "2", " ", "0", " ", "0", "\r">>)
    @@ ("      vertex 0 2 0\r" :> <<" ", " ", " ", " ", " ", " ", "v", "e", "r", "t", "e", "x", " ", "0", " ", "2", " ", "0", "\r">>)
    @@ ("      vertex 0 0 2\r" :> <<" ", " ", " ", " ", " ", " ", "v", "e", "r", "t", "e", "x", " ", "0", " ", "0", " ", "2", "\r">>)
    @@ ("    endloop\r" :> <<" ", " ", " ", " ", "e", "n", "d", "l", "o", "o", "p", "\r">>)
    @@ ("  endfacet\r" :> <<" ", " ", "e", "n", "d", "f", "a", "c", "e", "t", "\r">>)
    @@ ("endsolid t" :> <<"e", "n", "d", "s", "o", "l", "i", "d", " ", "t">>)
    @@ ("facet normal 0 0" :> <<"f", "a", "c", "e", "t", " ", "n", "o", "r", "m", "a", "l", " ", "0", " ", "0">>)
    @@ ("facet normal a 0 1" :> <<"f", "a", "c", "e", "t", " ", "n", "o", "r", "m", "a", "l", " ", "a", " ", "0", " ", "1">>)
    @@ ("facet  normal 0 0 1" :> <<"f", "a", "c", "e", "t", " ", " ", "n", "o", "r", "m", "a", "l", " ", "0", " ", "0", " ", "1">>)
    @@ ("outer loop x" :> <<"o", "u", "t", "e", "r", " ", "l", "o", "o", "p", " ", "x">>)
    @@ ("vertex 1 2 3" :> <<"v", "e", "r", "t", "e", "x", " ", "1", " ", "2", " ", "3">>)
    @@ ("vertex 1 2" :> <<"v", "e", "r", "t", "e", "x", " ", "1", " ", "2">>)
    @@ ("vertex 1 x 3" :> <<"v", "e", "r", "t", "e", "x", " ", "1", " ", "x", " ", "3">>)
    @@ ("vertex  1 2" :> <<"v", "e", "r", "t", "e", "x", " ", " ", "1", " ", "2">>)
    @@ ("end" :> <<"e", "n", "d">>)
    @@ ("" :> <<>>)

\* The lines of a well-formed facet: plain, and indented with "\r\n" ends.
PlainFacet == <<"facet normal 0 0 1", "outer loop", "vertex 1 0 0", "vertex 0 1 0", "vertex 0 0 1", "endloop", "endfacet">>
IndentedFacet == <<"  facet normal 1 0 -1\r",
                   "\touter loop\r",
                   "      vertex 2 0 0\r",
                   "      vertex 0 2 0\r",
                   "      vertex 0 0 2\r",
                   "    endloop\r",
                   "  endfacet\r">>

\* The first lines and the last lines of the texts.
FirstLines == {"solid t", "solid  cube 1 ", "cube"}
LastLines == {"endsolid t"}

\* The lines that take the place of a line of a text.
OtherLines == {"facet normal 0 0",
               "facet normal a 0 1",
               "facet  normal 0 0 1",
               "outer loop x",
               "vertex 1 2 3",
               "vertex 1 2",
               "vertex 1 x 3",
               "vertex  1 2",
               "endfacet",
               "end",
               ""}

\* The lines of the i-th facet of a text: plain when i is odd.
FacetLines(i) == IF i % 2 = 1 THEN PlainFacet ELSE IndentedFacet

RECURSIVE FacetsLines(_, _)
\* The lines of the facets from the i-th to the n-th.
FacetsLines(i, n) == IF i > n THEN <<>> ELSE FacetLines(i) \o FacetsLines(i + 1, n)

\* The prefixes and the cutsets the decoder passes.
FacetNormalPrefix == <<"f", "a", "c", "e", "t", " ", "n", "o", "r", "m", "a", "l", " ">>
OuterLoopPrefix == <<"o", "u", "t", "e", "r", " ", "l", "o", "o", "p">>
VertexPrefix == <<"v", "e", "r", "t", "e", "x", " ">>
EndLoopPrefix == <<"e", "n", "d", "l", "o", "o", "p">>
EndFacetPrefix == <<"e", "n", "d", "f", "a", "c", "e", "t">>
LineCutset == {" ", "\t", "\n", "\r"}
HeaderCutset == {" ", "\n"}

\* "Imported from ASCII STL by stl2ascii - ", the text before the name.
HeaderIntro == <<"Imported from ASCII STL by stl2ascii - ">>

\* r.ReadString('\n') on a reader that has delivered the first `from` lines
\* of text: the next line with its "\n", or, at the end of the text, what is
\* left of it with io.EOF.
ReadString(text, from) ==
    IF from >= Len(text.lines)
    THEN [line |-> <<>>, err |-> "EOF", pos |-> from]
    ELSE IF from + 1 = Len(text.lines) /\ ~text.terminated
    THEN [line |-> LineChars[text.lines[from + 1]], err |-> "EOF", pos |-> from + 1]
    ELSE [line |-> Append(LineChars[text.lines[from + 1]], "\n"), err |-> "nil",
          pos |-> from + 1]

RECURSIVE Trim(_, _)
\* strings.Trim(s, cutset): the characters of cutset in front and at the end
\* removed.
Trim(s, cutset) ==
    IF s = <<>> THEN s
    ELSE IF Head(s) \in cutset THEN Trim(Tail(s), cutset)
    ELSE IF s[Len(s)] \in cutset THEN Trim(SubSeq(s, 1, Len(s) - 1), cutset)
    ELSE s

RECURSIVE SplitAt(_, _, _)
\* strings.Split(s, sep) for a separator of one character, cur being the
\* part under way.
SplitAt(s, sep, cur) ==
    IF s = <<>> THEN <<cur>>
    ELSE IF Head(s) = sep THEN <<cur>> \o SplitAt(Tail(s), sep, <<>>)
    ELSE SplitAt(Tail(s), sep, Append(cur, Head(s)))

RECURSIVE Explode(_)
\* strings.Split(s, ""): s exploded into its characters, none for the empty s.
Explode(s) == IF s = <<>> THEN <<>> ELSE <<<<Head(s)>>>> \o Explode(Tail(s))

\* strings.Split(s, sep) for a separator of at most one character.
Split(s, sep) == IF sep = <<>> THEN Explode(s) ELSE SplitAt(s, sep[1], <<>>)

\* Lines 158-181: readAndTreatLine on a reader that has delivered the first
\* `from` lines of text.
readAndTreatLine(text, from, mustStartWith, partSplitters, expectedPartsLength) ==
    LET got == ReadString(text, from)
    IN IF got.err # "nil" THEN [lineParts |-> <<>>, err |-> got.err, pos |-> got.pos]
       ELSE LET line == Trim(got.line, LineCutset)
            IN IF Len(line) < Len(mustStartWith)
               THEN [lineParts |-> <<>>, err |-> "Line shorter than mustStartWith.",
                     pos |-> got.pos]
               ELSE IF SubSeq(line, 1, Len(mustStartWith)) # mustStartWith
               THEN [lineParts |-> <<>>, err |-> "Line different from mustStartWith.",
                     pos |-> got.pos]
               ELSE LET lineParts ==
                            Split(SubSeq(line, Len(mustStartWith) + 1, Len(line)),
                                  partSplitters)
                    IN [lineParts |-> lineParts,
                        err |-> IF Len(lineParts) # expectedPartsLength
                                THEN "Number of line parts different from expected"
                                ELSE "nil",
                        pos |-> got.pos]

Digits == <<"0", "1", "2", "3", "4", "5", "6", "7", "8", "9">>
IsDigit(c) == \E d \in 1 .. 10 : Digits[d] = c
DigitValue(c) == (CHOOSE d \in 1 .. 10 : Digits[d] = c) - 1

RECURSIVE DecimalValue(_, _)
\* The value of a sequence of decimal digits, after acc.
DecimalValue(s, acc) ==
    IF s = <<>> THEN acc ELSE DecimalValue(Tail(s), 10 * acc + DigitValue(Head(s)))

\* strconv.ParseFloat(s, 32) on the tokens of the model, and float32 of its
\* value: an optional sign and decimal digits give their value, and a token
\* that is empty or holds another character is a syntax error.
ParseFloat(s) ==
    LET signed == s # <<>> /\ Head(s) \in {"+", "-"}
        digits == IF signed THEN Tail(s) ELSE s
    IN IF digits # <<>> /\ \A i \in 1 .. Len(digits) : IsDigit(digits[i])
       THEN [value |-> Rounded(IF Head(s) = "-" THEN -DecimalValue(digits, 0)
                               ELSE DecimalValue(digits, 0), 1),
             err |-> "nil"]
       ELSE [value |-> Fin(0, 1), err |-> "invalid syntax"]

\* Lines 196-202 and 214-220: the three parts parsed in order, up to the
\* first that fails.
ParseVector(parts) ==
    LET f0 == ParseFloat(parts[1])
        f1 == ParseFloat(parts[2])
        f2 == ParseFloat(parts[3])
    IN [value |-> Vec(f0.value, f1.value, f2.value),
        err |-> IF f0.err # "nil" THEN f0.err
                ELSE IF f1.err # "nil" THEN f1.err
                ELSE f2.err]

\* Lines 193-195 with the failed match returned as the error of the decode.
LoopBreakReturnsError(e) == [pc |-> "ascii_done", err |-> e]

\* Lines 193-195 and 236: a line that does not match "facet normal " with
\* three parts ends the loop, and the decode returns m and nil.
LoopBreak(e) == [pc |-> "ascii_done", err |-> "nil"]

\* A failure inside a facet that ends the decode as a failed match does.
FacetFailureSwallowed(e) == [pc |-> "ascii_done", err |-> "nil"]

\* Lines 199, 206, 212, 217, 225, 230: return m, err inside a facet.
FacetFailure(e) == [pc |-> "ascii_done", err |-> e]

\* Lines 232-233 with the count left as it is.
AppendTriangleCountKept(model, t) ==
    [model EXCEPT !.Triangles = Append(model.Triangles, t)]

\* Lines 232-233: the triangle is appended and counted; the count is a
\* uint32, which the facets of a text of the model do not fill.
AppendTriangle(model, t) ==
    [model EXCEPT !.Triangles = Append(model.Triangles, t),
                  !.NumTriangles = model.NumTriangles + 1]

\* The zero value of Triangle, as var aTriangle Triangle holds it.
NewTriangle ==
    Triangle(Vec(Fin(0, 1), Fin(0, 1), Fin(0, 1)), Vec(Fin(0, 1), Fin(0, 1), Fin(0, 1)),
             Vec(Fin(0, 1), Fin(0, 1), Fin(0, 1)), Vec(Fin(0, 1), Fin(0, 1), Fin(0, 1)))

\* The texts: a first line, well-formed facets and a last line or none; one
\* line of it may be replaced by another line, or the text may end before
\* it; the last line comes with or without its "\n".
InitASCII ==
    /\ \E first \in FirstLines, n \in 0 .. MaxFacets, last \in SeqsUpTo(LastLines, 1),
          nl \in BOOLEAN :
          LET whole == <<first>> \o FacetsLines(1, n) \o last
          IN \/ input = [fn |-> "CreateFromASCIISTL", lines |-> whole, terminated |-> nl]
             \/ \E at \in 1 .. Len(whole) :
                   \/ input = [fn |-> "CreateFromASCIISTL",
                               lines |-> SubSeq(whole, 1, at - 1), terminated |-> nl]
                   \/ \E other \in OtherLines :
                         input = [fn |-> "CreateFromASCIISTL",
                                  lines |-> [whole EXCEPT ![at] = other],
                                  terminated |-> nl]
    /\ pc = "ascii"
    /\ pos = 0
    /\ aTriangle = <<>>
    /\ vertexIndex = 0
    /\ m = ZeroModel
    /\ err = "nil"
    /\ matrix = <<>>
    /\ buffer = <<>>
    /\ matrixSize = 0
    /\ projectFrom = 0
    /\ arch = "amd64"
    /\ mins = <<>>
    /\ maxs = <<>>
    /\ scale = NaN
    /\ j = 0
    /\ k = 0

\* Lines 183-188: the first line is read; Header[5:] panics on a line of
\* fewer than 5 bytes, its "\n" counted.
ASCIIFirstLine ==
    /\ pc = "ascii"
    /\ LET got == ReadString(input, pos)
       IN /\ pos' = got.pos
          /\ IF got.err # "nil"
             THEN pc' = "ascii_done" /\ err' = got.err /\ m' = m
             ELSE IF Len(got.line) < 5
             THEN pc' = "panic" /\ UNCHANGED <<err, m>>
             ELSE /\ pc' = "ascii_facet"
                  /\ m' = [m EXCEPT !.Header =
                              HeaderIntro \o Trim(SubSeq(got.line, 6, Len(got.line)),
                                                  HeaderCutset)]
                  /\ UNCHANGED err
    /\ UNCHANGED <<matrix, buffer, projVars, input, asciiVars>>

\* Lines 190-202: a new aTriangle; the "facet normal" line is read, and the
\* loop ends if it does not match; the normal is parsed.
ASCIIFacetNormal ==
    /\ pc = "ascii_facet"
    /\ LET got == readAndTreatLine(input, pos, FacetNormalPrefix, <<" ">>, 3)
       IN /\ pos' = got.pos
          /\ IF got.err # "nil"
             THEN /\ pc' = LoopBreak(got.err).pc
                  /\ err' = LoopBreak(got.err).err
                  /\ aTriangle' = NewTriangle
             ELSE LET normal == ParseVector(got.lineParts)
                  IN IF normal.err # "nil"
                     THEN /\ pc' = FacetFailure(normal.err).pc
                          /\ err' = FacetFailure(normal.err).err
                          /\ aTriangle' = NewTriangle
                     ELSE /\ pc' = "ascii_outer_loop"
                          /\ aTriangle' = [NewTriangle EXCEPT !.Normal = normal.value]
                          /\ UNCHANGED err
    /\ UNCHANGED <<m, matrix, buffer, projVars, input, vertexIndex>>

\* Lines 204-207: the "outer loop" line is read.
ASCIIOuterLoop ==
    /\ pc = "ascii_outer_loop"
    /\ LET got == readAndTreatLine(input, pos, OuterLoopPrefix, <<>>, 0)
       IN /\ pos' = got.pos
          /\ IF got.err # "nil"
             THEN pc' = FacetFailure(got.err).pc /\ err' = FacetFailure(got.err).err
             ELSE pc' = "ascii_vertex" /\ UNCHANGED err
    /\ vertexIndex' = 0
    /\ UNCHANGED <<m, matrix, buffer, projVars, input, aTriangle>>

\* Lines 209-221: one pass of the loop over the vertices.
ASCIIVertex ==
    /\ pc = "ascii_vertex"
    /\ LET got == readAndTreatLine(input, pos, VertexPrefix, <<" ">>, 3)
       IN /\ pos' = got.pos
          /\ IF got.err # "nil"
             THEN /\ pc' = FacetFailure(got.err).pc
                  /\ err' = FacetFailure(got.err).err
                  /\ UNCHANGED <<aTriangle, vertexIndex>>
             ELSE LET vertex == ParseVector(got.lineParts)
                  IN IF vertex.err # "nil"
                     THEN /\ pc' = FacetFailure(vertex.err).pc
                          /\ err' = FacetFailure(vertex.err).err
                          /\ UNCHANGED <<aTriangle, vertexIndex>>
                     ELSE /\ aTriangle' =
                               [aTriangle EXCEPT !.Vertices[vertexIndex] = vertex.value]
                          /\ vertexIndex' = vertexIndex + 1
                          /\ pc' = IF vertexIndex + 1 < 3 THEN "ascii_vertex"
                                   ELSE "ascii_endloop"
                          /\ UNCHANGED err
    /\ UNCHANGED <<m, matrix, buffer, projVars, input>>

\* Lines 223-226: the "endloop" line is read.
ASCIIEndLoop ==
    /\ pc = "ascii_endloop"
    /\ LET got == readAndTreatLine(input, pos, EndLoopPrefix, <<>>, 0)
       IN /\ pos' = got.pos
          /\ IF got.err # "nil"
             THEN pc' = FacetFailure(got.err).pc /\ err' = FacetFailure(got.err).err
             ELSE pc' = "ascii_endfacet" /\ UNCHANGED err
    /\ UNCHANGED <<m, matrix, buffer, projVars, input, asciiVars>>

\* Lines 228-233: the "endfacet" line is read, and the triangle is appended
\* and counted.
ASCIIEndFacet ==
    /\ pc = "ascii_endfacet"
    /\ LET got == readAndTreatLine(input, pos, EndFacetPrefix, <<>>, 0)
       IN /\ pos' = got.pos
          /\ IF got.err # "nil"
             THEN /\ pc' = FacetFailure(got.err).pc
                  /\ err' = FacetFailure(got.err).err
                  /\ m' = m
             ELSE /\ pc' = "ascii_facet"
                  /\ m' = AppendTriangle(m, aTriangle)
                  /\ UNCHANGED err
    /\ UNCHANGED <<matrix, buffer, projVars, input, asciiVars>>

NextDecode ==
    \/ StreamHeader \/ StreamTriangles
    \/ SliceHeader \/ SliceTriangles
    \/ ASCIIFirstLine \/ ASCIIFacetNormal \/ ASCIIOuterLoop
    \/ ASCIIVertex \/ ASCIIEndLoop \/ ASCIIEndFacet

InitDecode == InitBinary \/ InitASCII

SpecDecode == InitDecode /\ [][NextDecode]_vars

\* --------------------------------------------- claims on the projection

\* The vertices of the mesh, as <<triangle index, vertex index>>.
VertexIds == {<<t, v>> : t \in 1 .. Len(m.Triangles), v \in Axes}
VertexAt(id) == m.Triangles[id[1]].Vertices[id[2]]
AxisSel == GetAxisForProjection(projectFrom)
DepthExtent == Dimensions(mins, maxs)[AxisSel.forValue]
Projecting == pc \in {"project_loop", "project_done", "panic"}

\* C5 (as claimed): for every mesh, resolution and viewing direction, every
\* vertex yields a row index (S - gridX)/2 in 0..S/2 and a column index gridY
\* in 0..S, and the projection does not panic.
C5_EveryVertexInsideGrid ==
    /\ pc # "panic"
    /\ Projecting =>
          \A id \in VertexIds :
             /\ VertexRow(VertexAt(id), AxisSel, mins, scale, matrixSize, arch)
                   \in 0 .. (matrixSize \div 2)
             /\ VertexCol(VertexAt(id), AxisSel, mins, scale, arch) \in 0 .. matrixSize

\* The normalised depths of the vertices whose position is row r, column c
\* (a NaN depth compares with nothing and marks no cell).
DepthsAt(r, c) ==
    {d \in {NewValue(VertexAt(id), AxisSel, mins, maxs) :
               id \in {x \in VertexIds :
                         /\ VertexRow(VertexAt(x), AxisSel, mins, scale, matrixSize, arch) = r
                         /\ VertexCol(VertexAt(x), AxisSel, mins, scale, arch) = c}} :
        ~IsNaN(d)}

MaxDepthAt(r, c) ==
    IF DepthsAt(r, c) = {} THEN Fin(0, 1)
    ELSE CHOOSE d \in DepthsAt(r, c) : \A e \in DepthsAt(r, c) : FLessEq(e, d)

C8_BoundsEveryVertex ==
    Projecting =>
        /\ \A id \in VertexIds : \A c \in Axes :
              FLessEq(mins[c], VertexAt(id)[c]) /\ FLessEq(VertexAt(id)[c], maxs[c])
        /\ Len(m.Triangles) = 0 => \A c \in Axes : FGreater(mins[c], maxs[c])

\* C8 (amended): for a mesh with at least one triangle, mins[c] <= v[c] <=
\* maxs[c] for every axis c and every vertex v whose coordinate v[c] is not
\* NaN; for a mesh with no triangle, mins[c] > maxs[c] on every axis.
C8_BoundsEveryOrderedVertex ==
    Projecting =>
        /\ \A id \in VertexIds : \A c \in Axes :
              ~IsNaN(VertexAt(id)[c]) =>
                  FLessEq(mins[c], VertexAt(id)[c]) /\ FLessEq(VertexAt(id)[c], maxs[c])
        /\ Len(m.Triangles) = 0 => \A c \in Axes : FGreater(mins[c], maxs[c])

\* C8 witness: the bounding box of a mesh with a NaN coordinate and, on the
\* same axis, two different ordered coordinates, the smaller one seen last.
C8_Witness ==
    /\ pc = "project_loop"
    /\ Len(m.Triangles) >= 1
    /\ \E c \in Axes :
          /\ IsNaN(m.Triangles[1].Vertices[0][c])
          /\ FLess(m.Triangles[1].Vertices[2][c], m.Triangles[1].Vertices[1][c])
          /\ mins[c] = m.Triangles[1].Vertices[2][c]
          /\ maxs[c] = m.Triangles[1].Vertices[1][c]

\* ------------------------------------------------- claims on the renderer

\* The glyph the threshold table gives a cell of value n/d: against 4 times
\* the value, above 3 heavy, above 1.5 medium, above 0 light, otherwise (a NaN
\* included) a space.
TableGlyph(v) ==
    IF v.kind = "nan" THEN Space
    ELSE IF v.kind = "inf" THEN (IF v.n > 0 THEN HeavyShade ELSE Space)
    ELSE IF 4 * v.n > 3 * v.d THEN HeavyShade
    ELSE IF 8 * v.n > 3 * v.d THEN MediumShade
    ELSE IF 4 * v.n > 0 THEN LightShade
    ELSE Space

RECURSIVE RowStart(_, _)
\* The index in the output (from 1) before the first glyph of row r.
RowStart(mat, r) == IF r = 0 THEN 0 ELSE RowStart(mat, r - 1) + SliceLen(mat[r - 1]) + 1

\* C7: DrawMatrix outputs one newline-terminated line per row, with one glyph
\* per column in row-major order, the glyph of each cell being the one of the
\* threshold table; so an all-zero grid renders spaces and newlines only, and
\* a cell equal to 1 renders a heavy shade at exactly its position.
C7_OneGlyphPerCell ==
    pc = "draw_done" =>
        /\ Len(buffer) = RowStart(matrix, SliceLen(matrix))
        /\ \A r \in DOMAIN matrix :
              /\ \A c \in DOMAIN matrix[r] :
                    buffer[RowStart(matrix, r) + c + 1] = TableGlyph(matrix[r][c])
              /\ buffer[RowStart(matrix, r) + SliceLen(matrix[r]) + 1] = NewLine
        /\ (\A r \in DOMAIN matrix : \A c \in DOMAIN matrix[r] : matrix[r][c] = Fin(0, 1))
              => \A i \in 1 .. Len(buffer) : buffer[i] \in {Space, NewLine}
        /\ \A r \in DOMAIN matrix : \A c \in DOMAIN matrix[r] :
              matrix[r][c] = Fin(1, 1) => buffer[RowStart(matrix, r) + c + 1] = HeavyShade

\* C7 witness: a drawn grid of two rows of two cells that has a cell equal to 1
\* in its second row, a cell at each of the thresholds 3/4 and 3/8, and a zero.
C7_Witness ==
    /\ pc = "draw_done"
    /\ SliceLen(matrix) = 2
    /\ SliceLen(matrix[0]) = 2
    /\ SliceLen(matrix[1]) = 2
    /\ matrix[1][0] = Fin(1, 1)
    /\ matrix[0][1] = Fin(3, 4)
    /\ matrix[0][0] = Fin(3, 8)
    /\ matrix[1][1] = Fin(0, 1)
    /\ buffer = <<LightShade, MediumShade, NewLine, HeavyShade, Space, NewLine>>

\* ------------------------------------------- claims on the binary decoders

\* A binary decoder has returned, with or without an error.
BinaryReturned == pc \in {"stream_done", "slice_done"}

\* The bytes the declared count asks for after the header.
DeclaredSize(inp) == TriangleSize * inp.count

\* C3, as stated: both binary decoders fail alike.  Neither panics; on an
\* input of fewer than 84 bytes, or of fewer bytes after the header than the
\* declared count asks for, the decoder returns a truncation error, and on
\* every other input it returns without an error.
C3_TruncatedInputIsAnError ==
    input # <<>> /\ input.fn \in {"CreateFromBinarySTL", "CreateFromByteSlice"} =>
        /\ pc # "panic"
        /\ BinaryReturned =>
              IF input.len < HeaderSize \/ input.len - HeaderSize < DeclaredSize(input)
              THEN err \in {"EOF", "unexpected EOF"}
              ELSE err = "nil"

\* C10: when CreateFromBinarySTL returns without an error, it has taken
\* 84 + 50 * N bytes from the stream, N being the count it returns, so that
\* the bytes after those are the ones the next read of the stream delivers.
C10_StreamConsumesExactly ==
    pc = "stream_done" /\ err = "nil" =>
        /\ pos = HeaderSize + TriangleSize * m.NumTriangles
        /\ m.NumTriangles = input.count
        /\ ReadFull(Bytes(input), pos, input.len - pos).data
              = SubSeq(Bytes(input), HeaderSize + TriangleSize * input.count + 1, input.len)

\* A stream with triangles and with bytes after them has been decoded.
C10_Witness ==
    /\ pc = "stream_done"
    /\ err = "nil"
    /\ m.NumTriangles >= 1
    /\ input.len > HeaderSize + TriangleSize * m.NumTriangles

\* --------------------------------------------- claims on the ASCII decoder

\* The normals and the vertices the lines of the texts spell.
NormalOf ==
    ("facet normal 0 0 1" :> Vec(Fin(0, 1), Fin(0, 1), Fin(1, 1)))
    @@ ("  facet normal 1 0 -1\r" :> Vec(Fin(1, 1), Fin(0, 1), Fin(-1, 1)))
VertexOf ==
    ("vertex 1 0 0" :> Vec(Fin(1, 1), Fin(0, 1), Fin(0, 1)))
    @@ ("vertex 0 1 0" :> Vec(Fin(0, 1), Fin(1, 1), Fin(0, 1)))
    @@ ("vertex 0 0 1" :> Vec(Fin(0, 1), Fin(0, 1), Fin(1, 1)))
    @@ ("      vertex 2 0 0\r" :> Vec(Fin(2, 1), Fin(0, 1), Fin(0, 1)))
    @@ ("      vertex 0 2 0\r" :> Vec(Fin(0, 1), Fin(2, 1), Fin(0, 1)))
    @@ ("      vertex 0 0 2\r" :> Vec(Fin(0, 1), Fin(0, 1), Fin(2, 1)))
    @@ ("vertex 1 2 3" :> Vec(Fin(1, 1), Fin(2, 1), Fin(3, 1)))

\* The lines that are an "outer loop", an "endloop" and an "endfacet" line.
OuterLoopLines == {"outer loop", "\touter loop\r"}
EndLoopLines == {"endloop", "    endloop\r"}
EndFacetLines == {"endfacet", "  endfacet\r"}

\* The lines that begin, blanks aside, with "facet normal ", and those of
\* them with three fields after it.
FacetNormalLines ==
    {"facet normal 0 0 1", "  facet normal 1 0 -1\r", "facet normal a 0 1", "facet normal 0 0"}
FacetNormalLinesOfThree == FacetNormalLines \ {"facet normal 0 0"}

\* The first lines that begin with "solid ", and the names they give.
NameOf == ("solid t" :> <<"t">>) @@ ("solid  cube 1 " :> <<"c", "u", "b", "e", " ", "1">>)

\* The text holds an n-th line that ends with "\n".
Delivered(text, n) == n <= Len(text.lines) /\ (n < Len(text.lines) \/ text.terminated)

\* The seven lines after the first `at` lines of text are a well-formed facet.
WellFormedAt(text, at) ==
    /\ Delivered(text, at + 7)
    /\ text.lines[at + 1] \in DOMAIN NormalOf
    /\ text.lines[at + 2] \in OuterLoopLines
    /\ \A v \in 3 .. 5 : text.lines[at + v] \in DOMAIN VertexOf
    /\ text.lines[at + 6] \in EndLoopLines
    /\ text.lines[at + 7] \in EndFacetLines

RECURSIVE Accepted(_, _)
\* The triangles of the well-formed facets that follow one another after the
\* first `at` lines of text.
Accepted(text, at) ==
    IF WellFormedAt(text, at)
    THEN <<Triangle(NormalOf[text.lines[at + 1]], VertexOf[text.lines[at + 3]],
                    VertexOf[text.lines[at + 4]], VertexOf[text.lines[at + 5]])>>
         \o Accepted(text, at + 7)
    ELSE <<>>

\* The lines of text up to the end of its well-formed facets.
AcceptedLines(text) == 1 + 7 * Len(Accepted(text, 1))

\* CreateFromASCIISTL has returned after it read the first line.
ASCIIReturned ==
    /\ pc = "ascii_done"
    /\ input.fn = "CreateFromASCIISTL"
    /\ Delivered(input, 1)

\* C1: when, after the first line and the well-formed facets, the text ends
\* or goes on with a line that does not begin with "facet normal ", the
\* decode returns no error and the triangles of those facets, in the order
\* of the text, and it has read no line after that one.
C1_MissedFacetEndsWithoutError ==
    ASCIIReturned
    /\ (~Delivered(input, AcceptedLines(input) + 1)
        \/ input.lines[AcceptedLines(input) + 1] \notin FacetNormalLines) =>
        /\ err = "nil"
        /\ m.Triangles = Accepted(input, 1)
        /\ pos = IF AcceptedLines(input) + 1 <= Len(input.lines)
                 THEN AcceptedLines(input) + 1 ELSE Len(input.lines)

\* A decode that accepted a facet has ended at a line of another kind, with
\* lines left after it.
C1_Witness ==
    /\ ASCIIReturned
    /\ Len(m.Triangles) >= 1
    /\ Delivered(input, AcceptedLines(input) + 1)
    /\ input.lines[AcceptedLines(input) + 1] \notin FacetNormalLines
    /\ pos < Len(input.lines)
    /\ err = "nil"

\* C2: when, after the first line and the well-formed facets, the text goes
\* on with a "facet normal" line of three fields, which therefore opens a
\* facet that is not well-formed, the decode returns an error, and the
\* triangles of the well-formed facets before it and no other.
C2_FailureInsideFacetIsAnError ==
    ASCIIReturned
    /\ Delivered(input, AcceptedLines(input) + 1)
    /\ input.lines[AcceptedLines(input) + 1] \in FacetNormalLinesOfThree =>
        /\ err # "nil"
        /\ m.Triangles = Accepted(input, 1)

\* A decode that accepted a facet has failed on the third vertex line of the
\* next, which lacks a coordinate.
C2_Witness ==
    /\ ASCIIReturned
    /\ Len(m.Triangles) >= 1
    /\ Delivered(input, AcceptedLines(input) + 5)
    /\ input.lines[AcceptedLines(input) + 1] \in DOMAIN NormalOf
    /\ input.lines[AcceptedLines(input) + 5] = "vertex 1 2"
    /\ pos = AcceptedLines(input) + 5
    /\ err # "nil"

\* C4: the count of a Model equals the number of its triangles when a binary
\* decoder returns it without an error, and in the ASCII decoder at every
\* point from the first line on, hence also in the Model it returns with an
\* error.
C4_CountIsNumberOfTriangles ==
    \/ BinaryReturned /\ err = "nil"
    \/ input # <<>> /\ input.fn = "CreateFromASCIISTL"
    => m.NumTriangles = Len(m.Triangles)

\* The ASCII decoder has returned, with an error, the triangles it had
\* appended.
C4_Witness ==
    /\ ASCIIReturned
    /\ err # "nil"
    /\ Len(m.Triangles) >= 1
    /\ m.NumTriangles = Len(m.Triangles)

\* C9, as stated: the first line must begin with "solid ".  When it is read
\* and does, the header ends with the name it gives; when it cannot be read
\* or does not, the decode fails at once with an error and reads no line
\* after it.
C9_FirstLineMustBeSolid ==
    input # <<>> /\ input.fn = "CreateFromASCIISTL" /\ pc # "ascii" =>
        IF Delivered(input, 1) /\ input.lines[1] \in DOMAIN NameOf
        THEN m.Header = HeaderIntro \o NameOf[input.lines[1]]
        ELSE pc = "ascii_done" /\ err # "nil" /\ pos <= 1

====
